---- MODULE Spec2Model ----
(***************************************************************************)
(* Shipment / package tracking (src/app.py, src/models.py).                *)
(*                                                                         *)
(* The state is the relational store (tables shipment_head, package_head,  *)
(* shipment_line, package_line, item, stock) plus the response to the last *)
(* request served.  Every state-changing route handler of create_app() is  *)
(* one action, executed atomically (one request at a time): its guards are *)
(* the handler's abort()/early-return conditions in source order, its      *)
(* writes are the session's pending changes, applied by db.session.commit  *)
(* when the table constraints of models.py hold and discarded otherwise.   *)
(* The handlers are modelled behind @login_required, i.e. for a request of *)
(* an authenticated user.  For requests served side by side, the handlers  *)
(* that check and then write are also given as two steps, with one request *)
(* held in flight between them (pending).                                  *)
(***************************************************************************)
EXTENDS Integers, Sequences, FiniteSets, TLC

VARIABLES
    shipment_head,  \* id -> [status, shipment_number, created_by]
    package_head,   \* id -> [status, shipment_number, created_by]
    shipment_line,  \* set of [shipment_no, line_no, package_no]
    package_line,   \* set of [package_no, line_no, item_no, quantity]
    stock,          \* item_id -> [quantity_on_hand]   (rows of table stock)
    response,       \* of the last request: route, HTTP status, abort text or
                    \* redirect target, and whether db.session.commit() ran
    history,        \* (not program state) of one parent, the one watched: the
                    \* highest line number among the lines deleted from it
    shipments_left, \* (not program state) how many more shipments the run
                    \* creates
    pending         \* the request that has passed its checks and not yet
                    \* written (one request in flight beside the one served)

store == <<shipment_head, package_head, shipment_line, package_line>>
vars  == <<shipment_head, package_head, shipment_line, package_line,
           stock, response, history, shipments_left, pending>>

---------------------------------------------------------------------------
(* Bounds of the model *)

\* shipments created, package ids in use, units of item 1 on hand, and the
\* largest quantity a line may reach
MaxShipments == 1
MaxPackages == 2
MaxOnHand == 1
MaxLineQty == 3

\* the largest line_no of a shipment line: a shipment never holds more lines
\* than packages exist
MaxLineNo == MaxPackages

---------------------------------------------------------------------------
(* Values *)

\* SQL NULL / Python None of a nullable string column
None == <<>>

\* "no row": what scalar_one_or_none() gives for an id (ids start at 1, and
\* the handlers test the id for truthiness, so None and 0 behave alike)
NoId == 0

\* The rows of table item
Items == {1, 2}

\* the largest line_no of a package line: a package never holds more lines
\* than items exist
MaxPackageLineNo == Cardinality(Items)

\* The acting users (current_user.id)
Users == {1}

\* primary keys a request may name (rows that exist, and rows that do not:
\* not yet created, or deleted)
ShipmentIds == 1 .. MaxShipments

\* ... in a run that creates one shipment more
FleetShipmentIds == 1 .. MaxShipments + 1
PackageIds == 1 .. MaxPackages

\* values of the form fields item_id and quantity, as sent: strings
\* (sequences of characters)
ItemFormValues == { <<"1">>, <<"2">>, <<"9">>, <<"x">> }
QuantityFormValues == { <<"1">>, <<"2">>, <<"-", "1">> }

\* a form is a partial map from field names to strings
Forms ==
    { [item_id |-> <<"1">>, quantity |-> q] : q \in QuantityFormValues }
    \cup { [item_id |-> i, quantity |-> <<"1">>] : i \in ItemFormValues }
    \cup { [item_id |-> <<"1">>] }

\* what the two datetime.utcnow() calls of one ship request may return: here
\* midnight passes between them
Instant(Y, m, d, H, M, S) == [Y |-> Y, m |-> m, d |-> d, H |-> H, M |-> M, S |-> S]

ClockReadings ==
    { <<Instant(2024, 1, 1, 23, 59, 59), Instant(2024, 1, 2, 0, 0, 0)>> }

\* what they may return to a request that reaches its commit a second later
LaterClockReadings ==
    { <<Instant(2024, 1, 2, 0, 0, 1), Instant(2024, 1, 2, 0, 0, 1)>> }

AllClockReadings == ClockReadings \cup LaterClockReadings

---------------------------------------------------------------------------
(* Pure helpers *)

RECURSIVE SumSeq(_)
SumSeq(s) == IF s = <<>> THEN 0 ELSE Head(s) + SumSeq(Tail(s))

RECURSIVE SetToSeq(_)
SetToSeq(S) ==
    IF S = {} THEN <<>>
    ELSE LET x == CHOOSE y \in S : TRUE IN <<x>> \o SetToSeq(S \ {x})

\* max of a finite set of integers, 0 when empty: COALESCE(MAX(..), 0)
CoalesceMax(S) == IF S = {} THEN 0 ELSE CHOOSE x \in S : \A y \in S : y <= x

DigitChars == <<"0", "1", "2", "3", "4", "5", "6", "7", "8", "9">>

DigitValue(c) == (CHOOSE k \in 1 .. 10 : DigitChars[k] = c) - 1

IsDigit(c) == \E k \in 1 .. 10 : DigitChars[k] = c

RECURSIVE DigitsValue(_, _)
DigitsValue(s, acc) ==
    IF s = <<>> THEN acc ELSE DigitsValue(Tail(s), 10 * acc + DigitValue(Head(s)))

\* Python's str.strip() of blanks
RECURSIVE LStrip(_)
LStrip(s) == IF s # <<>> /\ Head(s) = " " THEN LStrip(Tail(s)) ELSE s

RECURSIVE RStrip(_)
RStrip(s) ==
    IF s # <<>> /\ s[Len(s)] = " " THEN RStrip(SubSeq(s, 1, Len(s) - 1)) ELSE s

\* Python's int(str): blanks stripped, an optional sign, then one or more
\* decimal digits; anything else raises ValueError
IntBody(s) ==
    LET t == RStrip(LStrip(s))
    IN IF t # <<>> /\ Head(t) \in {"+", "-"} THEN Tail(t) ELSE t

IsIntLiteral(s) ==
    LET b == IntBody(s) IN b # <<>> /\ \A k \in 1 .. Len(b) : IsDigit(b[k])

ParseInt(s) ==
    LET t == RStrip(LStrip(s))
        v == DigitsValue(IntBody(s), 0)
    IN IF t # <<>> /\ Head(t) = "-" THEN 0 - v ELSE v

\* request.form.get(field, "0")
FormGet(form, field) == IF field \in DOMAIN form THEN form[field] ELSE <<"0">>

\* item_id = int(form.get("item_id", "0")); qty = int(form.get("quantity", "0"))
\* inside try/except ValueError
ParseForm(form) ==
    IF IsIntLiteral(FormGet(form, "item_id")) /\ IsIntLiteral(FormGet(form, "quantity"))
    THEN [ValueError |-> FALSE,
          item_id |-> ParseInt(FormGet(form, "item_id")),
          qty |-> ParseInt(FormGet(form, "quantity"))]
    ELSE [ValueError |-> TRUE, item_id |-> 0, qty |-> 0]

\* the parse of every form a request may carry
ParsedForms == [form \in Forms |-> ParseForm(form)]

\* decimal digits of n >= 0, zero-padded to at least w characters ("%0wd")
RECURSIVE Pad(_, _)
Pad(n, w) ==
    IF n < 10 /\ w <= 1 THEN <<DigitChars[n + 1]>>
    ELSE Pad(n \div 10, w - 1) \o <<DigitChars[(n % 10) + 1]>>

\* (mutation) the shipment id is left out of the number
FormatShipmentNumber_NoId(t1, id, t2) ==
    <<"S", "N">> \o Pad(t1.Y, 4) \o Pad(t1.m, 2) \o Pad(t1.d, 2)
    \o <<"-">> \o Pad(t2.H, 2) \o Pad(t2.M, 2) \o Pad(t2.S, 2)

\* f"SN{t1:%Y%m%d}-{id}-{t2:%H%M%S}"
FormatShipmentNumber(t1, id, t2) ==
    <<"S", "N">> \o Pad(t1.Y, 4) \o Pad(t1.m, 2) \o Pad(t1.d, 2)
    \o <<"-">> \o Pad(id, 1) \o <<"-">>
    \o Pad(t2.H, 2) \o Pad(t2.M, 2) \o Pad(t2.S, 2)

\* the number of every shipment id at every pair of clock readings
ShipmentNumbers ==
    [id \in FleetShipmentIds, t \in AllClockReadings |-> FormatShipmentNumber(t[1], id, t[2])]

---------------------------------------------------------------------------
(* The store: constraints of models.py, queries of app.py *)

StatusEnum == {"open", "packed", "shipped"}

\* (mutation) an item without a Stock row counts as one on hand
OnHand_DefaultsToOne(item_id) ==
    IF item_id \in DOMAIN stock THEN stock[item_id].quantity_on_hand ELSE 1

\* db.session.get(Stock, item_id).quantity_on_hand, 0 without a row
OnHand(item_id) ==
    IF item_id \in DOMAIN stock THEN stock[item_id].quantity_on_hand ELSE 0

\* no two rows of table T agree on the key whose values are `keys`
\* (PRIMARY KEY / UNIQUE)
Unique(keys, T) == Cardinality(keys) = Cardinality(T)

\* (mutation) the package is part of the key
ShipmentLineKey_WithPackage(l) == <<l.shipment_no, l.line_no, l.package_no>>

\* PRIMARY KEY (shipment_no, line_no)
ShipmentLineKey(l) == <<l.shipment_no, l.line_no>>
ShipmentLinePackage(l) == l.package_no
PackageLineKey(l) == <<l.package_no, l.line_no>>
PackageLineItem(l) == <<l.package_no, l.item_no>>

\* everything the database enforces on the four tables at commit
Constraints(sh, ph, sl, pl) ==
    /\ LET numbered == {a \in DOMAIN sh : sh[a].shipment_number # None}
       IN Cardinality({sh[a].shipment_number : a \in numbered}) = Cardinality(numbered)
    /\ \A a \in DOMAIN sh : sh[a].status \in StatusEnum /\ sh[a].created_by \in Users
    /\ \A a \in DOMAIN ph : ph[a].status \in StatusEnum /\ ph[a].created_by \in Users
    /\ Unique({ShipmentLineKey(l) : l \in sl}, sl)
    /\ Unique({ShipmentLinePackage(l) : l \in sl}, sl)
    /\ \A l \in sl : l.shipment_no \in DOMAIN sh /\ l.package_no \in DOMAIN ph
    /\ Unique({PackageLineKey(l) : l \in pl}, pl)
    /\ Unique({PackageLineItem(l) : l \in pl}, pl)
    /\ \A l \in pl : /\ l.quantity > 0
                     /\ l.package_no \in DOMAIN ph
                     /\ l.item_no \in Items

\* SELECT shipment_no FROM shipment_line WHERE package_no = :package_id
\* (scalar_one_or_none), then "if shipment_id": the shipment or nothing
LinkedShipment(package_id) ==
    LET rows == {l.shipment_no : l \in {x \in shipment_line : x.package_no = package_id}}
    IN IF rows = {} THEN NoId ELSE CHOOSE s \in rows : TRUE

\* (mutation) the package's own status is not looked at
Locked_ShipmentOnly(package_id) ==
    LET shipment_id == LinkedShipment(package_id)
    IN /\ shipment_id # NoId
       /\ shipment_id \in DOMAIN shipment_head
       /\ shipment_head[shipment_id].status # "open"

\* pkg.status != "open" or (shipment and shipment.status != "open")
Locked(package_id) ==
    \/ package_head[package_id].status # "open"
    \/ LET shipment_id == LinkedShipment(package_id)
       IN /\ shipment_id # NoId
          /\ shipment_id \in DOMAIN shipment_head
          /\ shipment_head[shipment_id].status # "open"

\* (mutation) only the lines of packages still open are counted
ReservedRows_OpenPackagesOnly(item_id) ==
    { <<pl, sl>> \in package_line \X shipment_line :
         /\ pl.item_no = item_id
         /\ pl.package_no \in DOMAIN package_head
         /\ package_head[pl.package_no].status = "open"
         /\ sl.package_no = pl.package_no
         /\ sl.shipment_no \in DOMAIN shipment_head
         /\ shipment_head[sl.shipment_no].status = "open" }

\* the rows of package_line JOIN package_head JOIN shipment_line JOIN
\* shipment_head WHERE shipment_head.status = 'open' AND item_no = :item_id
ReservedRows(item_id) ==
    { <<pl, sl>> \in package_line \X shipment_line :
         /\ pl.item_no = item_id
         /\ pl.package_no \in DOMAIN package_head
         /\ sl.package_no = pl.package_no
         /\ sl.shipment_no \in DOMAIN shipment_head
         /\ shipment_head[sl.shipment_no].status = "open" }

\* (mutation) the sum over every line of the item, linked or not
Reserved_AllLines(item_id) ==
    LET rows == SetToSeq({l \in package_line : l.item_no = item_id})
    IN SumSeq([k \in 1 .. Len(rows) |-> rows[k].quantity])

\* COALESCE(SUM(package_line.quantity), 0) over those rows
Reserved(item_id) ==
    LET rows == SetToSeq(ReservedRows(item_id))
    IN SumSeq([k \in 1 .. Len(rows) |-> rows[k][1].quantity])

\* (mutation) the quantity asked for is left out of the comparison
ReservationExceeded_IgnoresQty(item_id, qty) == Reserved(item_id) > OnHand(item_id)

\* (mutation) >= for >: an add that would use the stock up exactly is refused
ReservationExceeded_RejectsEqual(item_id, qty) ==
    Reserved(item_id) + qty >= OnHand(item_id)

\* if reserved + qty > on_hand: return (no line is written)
ReservationExceeded(item_id, qty) == Reserved(item_id) + qty > OnHand(item_id)

\* (mutation) < for <=: a quantity of 0 passes
InvalidQuantity_AllowsZero(qty) == qty < 0

\* if qty <= 0: return
InvalidQuantity(qty) == qty <= 0

\* (mutation) the status check of add_package is missing
AddPackageRefused_Never(shipment_id) == FALSE

\* (mutation) the status is compared with the wrong value
AddPackageRefused_WhenPacked(shipment_id) == shipment_head[shipment_id].status = "packed"

\* if sh.status != "open": abort(400), in each shipment handler
AddPackageRefused(shipment_id) == shipment_head[shipment_id].status # "open"

\* (mutation) the status check of ship is missing
ShipRefused_Never(shipment_id) == FALSE

ShipRefused(shipment_id) == shipment_head[shipment_id].status # "open"

\* (mutation) the status check of delete_package is missing
DeletePackageRefused_Never(shipment_id) == FALSE

DeletePackageRefused(shipment_id) == shipment_head[shipment_id].status # "open"

\* (mutation) a package of any status is packed
PackRefused_Never(package_id) == FALSE

\* if pkg.status != "open": abort(400)
PackRefused(package_id) == package_head[package_id].status # "open"

\* (mutation) the status is set, the number is not
MarkShipped_NoNumber(shipment_id, sn) ==
    [shipment_head EXCEPT ![shipment_id].status = "shipped"]

\* (mutation) the number is set, the status stays as it was
MarkShipped_StatusKept(shipment_id, sn) ==
    [shipment_head EXCEPT ![shipment_id].shipment_number = sn]

\* sh.status = "shipped"; sh.shipment_number = sn
MarkShipped(shipment_id, sn) ==
    [shipment_head EXCEPT ![shipment_id].status = "shipped",
                          ![shipment_id].shipment_number = sn]

\* (mutation) only the packages still open are updated
UpdatePackages_OnlyOpen(pkg_ids, sn) ==
    [p \in DOMAIN package_head |->
        IF p \in pkg_ids /\ package_head[p].status = "open"
        THEN [package_head[p] EXCEPT !.shipment_number = sn, !.status = "shipped"]
        ELSE package_head[p]]

\* UPDATE package_head SET shipment_number = :sn, status = 'shipped'
\* WHERE id IN (:pkg_ids)   (skipped when pkg_ids is empty)
UpdatePackages(pkg_ids, sn) ==
    [p \in DOMAIN package_head |->
        IF p \in pkg_ids
        THEN [package_head[p] EXCEPT !.shipment_number = sn, !.status = "shipped"]
        ELSE package_head[p]]

\* (mutation) the "+ 1" is missing
NextShipmentLineNo_NoIncrement(shipment_id) ==
    CoalesceMax({l.line_no : l \in {x \in shipment_line : x.shipment_no = shipment_id}})

\* COALESCE(MAX(line_no), 0) + 1 over the parent's lines
NextShipmentLineNo(shipment_id) ==
    CoalesceMax({l.line_no : l \in {x \in shipment_line : x.shipment_no = shipment_id}}) + 1

NextPackageLineNo(package_id) ==
    CoalesceMax({l.line_no : l \in {x \in package_line : x.package_no = package_id}}) + 1

\* the primary key the database gives a new row: an INTEGER PRIMARY KEY of
\* SQLite (config.py's default database) is the largest id present plus one
NewShipmentId == CoalesceMax(DOMAIN shipment_head) + 1

NewPackageId == CoalesceMax(DOMAIN package_head) + 1

\* what a request gets back. status: 200 (page), 302 (redirect to the detail
\* page of `target`), 400/404 (abort, with its text), 500 (IntegrityError)
Response(op, status, description, target, committed) ==
    [op |-> op, status |-> status, description |-> description,
     target |-> target, committed |-> committed]

\* abort(status, description): nothing pending is committed
Abort(op, status, description) ==
    /\ response' = Response(op, status, description, NoId, FALSE)
    /\ UNCHANGED <<shipment_head, package_head, shipment_line, package_line, stock, history,
                   shipments_left, pending>>

\* return redirect(url_for(..detail, id)) before any write
Redirect(op, target) ==
    /\ response' = Response(op, 302, "", target, FALSE)
    /\ UNCHANGED <<shipment_head, package_head, shipment_line, package_line, stock, history,
                   shipments_left, pending>>

\* (mutation) when a constraint fails the flushed package rows stay
Commit_KeepsPackages(op, status, target, sh, ph, sl, pl) ==
    IF Constraints(sh, ph, sl, pl)
    THEN /\ shipment_head' = sh
         /\ package_head' = ph
         /\ shipment_line' = sl
         /\ package_line' = pl
         /\ response' = Response(op, status, "", target, TRUE)
    ELSE /\ package_head' = ph
         /\ UNCHANGED <<shipment_head, shipment_line, package_line>>
         /\ response' = Response(op, 500, "IntegrityError", NoId, FALSE)

\* db.session.commit() of the pending tables, then the page: all of the
\* writes, or (a constraint fails: IntegrityError, HTTP 500) none of them
Commit(op, status, target, sh, ph, sl, pl) ==
    IF Constraints(sh, ph, sl, pl)
    THEN /\ shipment_head' = sh
         /\ package_head' = ph
         /\ shipment_line' = sl
         /\ package_line' = pl
         /\ response' = Response(op, status, "", target, TRUE)
    ELSE /\ UNCHANGED <<shipment_head, package_head, shipment_line, package_line>>
         /\ response' = Response(op, 500, "IntegrityError", NoId, FALSE)

---------------------------------------------------------------------------
(* The record of the deleted lines of one parent (the parent being watched) *)

Max(a, b) == IF a >= b THEN a ELSE b

\* no request is in flight
Idle ==
    [op |-> "none", shipment_id |-> NoId, package_id |-> NoId, item_id |-> NoId,
     qty |-> 0, next_line |-> 0, user |-> NoId]

\* no parent is watched
NoWatch == [kind |-> "none", id |-> NoId, deleted |-> 0]

\* the parent (kind, id) is watched, and has lost no line yet
Watch(kind, id) == [kind |-> kind, id |-> id, deleted |-> 0]

Watched(kind, id) == history.kind = kind /\ history.id = id

\* shipments_delete_package deleted the lines `link` of shipment_id and the
\* parent package_id
NoteDeletedPackage(shipment_id, package_id, link) ==
    IF ~ response'.committed THEN history
    ELSE IF Watched("shipment", shipment_id)
    THEN [history EXCEPT !.deleted = Max(@, CoalesceMax({l.line_no : l \in link}))]
    ELSE IF Watched("package", package_id)
    THEN [history EXCEPT !.deleted = 0]
    ELSE history

\* packages_delete_item deleted the lines `line` of package_id
NoteDeletedLine(package_id, line) ==
    IF response'.committed /\ Watched("package", package_id)
    THEN [history EXCEPT !.deleted = Max(@, CoalesceMax({l.line_no : l \in line}))]
    ELSE history

---------------------------------------------------------------------------
(* The route handlers *)

\* POST /shipments/new
shipments_create(user) ==
    LET id == NewShipmentId
        sh == shipment_head @@
                (id :> [status |-> "open", shipment_number |-> None, created_by |-> user])
    IN /\ shipments_left > 0
       /\ Commit("shipments_create", 200, id,
                 sh, package_head, shipment_line, package_line)
       /\ shipments_left' = IF response'.committed THEN shipments_left - 1 ELSE shipments_left
       /\ UNCHANGED <<stock, history, pending>>

\* (mutation) no package is created when one exists: the newest package is
\* linked to the shipment, its previous link replaced
shipments_add_package_Relinks(shipment_id, user) ==
    IF shipment_id \notin DOMAIN shipment_head
    THEN Abort("shipments_add_package", 404, "Shipment not found")
    ELSE IF AddPackageRefused(shipment_id)
    THEN Abort("shipments_add_package", 400, "Shipment is not open")
    ELSE LET id == IF DOMAIN package_head = {} THEN 1 ELSE CoalesceMax(DOMAIN package_head)
             ph == IF id \in DOMAIN package_head THEN package_head
                   ELSE (id :> [status |-> "open", shipment_number |-> None, created_by |-> user])
             next_line == NextShipmentLineNo(shipment_id)
             sl == {l \in shipment_line : l.package_no # id} \cup
                     {[shipment_no |-> shipment_id, line_no |-> next_line, package_no |-> id]}
         IN /\ next_line <= MaxLineNo
            /\ Commit("shipments_add_package", 302, shipment_id,
                      shipment_head, ph, sl, package_line)
            /\ UNCHANGED <<stock, history, shipments_left, pending>>

\* POST /shipments/<shipment_id>/packages/new
shipments_add_package(shipment_id, user) ==
    IF shipment_id \notin DOMAIN shipment_head
    THEN Abort("shipments_add_package", 404, "Shipment not found")
    ELSE IF AddPackageRefused(shipment_id)
    THEN Abort("shipments_add_package", 400, "Shipment is not open")
    ELSE LET id == NewPackageId
             ph == package_head @@
                     (id :> [status |-> "open", shipment_number |-> None, created_by |-> user])
             next_line == NextShipmentLineNo(shipment_id)
             sl == shipment_line \cup
                     {[shipment_no |-> shipment_id, line_no |-> next_line, package_no |-> id]}
         IN /\ id <= MaxPackages
            /\ next_line <= MaxLineNo
            /\ Commit("shipments_add_package", 302, shipment_id,
                      shipment_head, ph, sl, package_line)
            /\ UNCHANGED <<stock, history, shipments_left, pending>>

\* POST /shipments/<shipment_id>/ship ; t1, t2: the two datetime.utcnow()
shipments_ship(shipment_id, t1, t2) ==
    IF shipment_id \notin DOMAIN shipment_head
    THEN Abort("shipments_ship", 404, "Shipment not found")
    ELSE IF ShipRefused(shipment_id)
    THEN Abort("shipments_ship", 400, "Shipment already shipped")
    ELSE LET sn == ShipmentNumbers[shipment_id, <<t1, t2>>]
             sh == MarkShipped(shipment_id, sn)
             pkg_ids == {l.package_no : l \in {x \in shipment_line : x.shipment_no = shipment_id}}
             ph == IF pkg_ids # {} THEN UpdatePackages(pkg_ids, sn) ELSE package_head
         IN /\ Commit("shipments_ship", 302, shipment_id,
                      sh, ph, shipment_line, package_line)
            /\ UNCHANGED <<stock, history, shipments_left, pending>>

\* POST /shipments/<shipment_id>/packages/<package_id>/delete
shipments_delete_package(shipment_id, package_id) ==
    IF shipment_id \notin DOMAIN shipment_head
    THEN Abort("shipments_delete_package", 404, "Shipment not found")
    ELSE IF DeletePackageRefused(shipment_id)
    THEN Abort("shipments_delete_package", 400, "Shipment is not open")
    ELSE LET link == {l \in shipment_line :
                        l.shipment_no = shipment_id /\ l.package_no = package_id}
         IN IF link = {}
            THEN Abort("shipments_delete_package", 404, "Package not linked to this shipment")
            ELSE LET sl == shipment_line \ link
                     \* db.session.delete(pkg) cascades to PackageHead.lines
                     ph == [p \in DOMAIN package_head \ {package_id} |-> package_head[p]]
                     pl == IF package_id \in DOMAIN package_head
                           THEN {l \in package_line : l.package_no # package_id}
                           ELSE package_line
                 IN /\ Commit("shipments_delete_package", 302, shipment_id,
                              shipment_head, ph, sl, pl)
                    /\ history' = NoteDeletedPackage(shipment_id, package_id, link)
                    /\ UNCHANGED <<stock, shipments_left, pending>>

\* (mutation) the quantity of an existing line is replaced, not added to
UpsertLine_Overwrites(package_id, item_id, qty) ==
    LET existing == {l \in package_line :
                        l.package_no = package_id /\ l.item_no = item_id}
    IN IF existing # {}
       THEN {IF l \in existing THEN [l EXCEPT !.quantity = qty] ELSE l :
                l \in package_line}
       ELSE package_line \cup
              {[package_no |-> package_id, line_no |-> NextPackageLineNo(package_id),
                item_no |-> item_id, quantity |-> qty]}

\* the upsert of packages_add_item, with item_id and qty parsed and checked
UpsertLine(package_id, item_id, qty) ==
    LET existing == {l \in package_line :
                        l.package_no = package_id /\ l.item_no = item_id}
    IN IF existing # {}
       THEN {IF l \in existing THEN [l EXCEPT !.quantity = l.quantity + qty] ELSE l :
                l \in package_line}
       ELSE package_line \cup
              {[package_no |-> package_id, line_no |-> NextPackageLineNo(package_id),
                item_no |-> item_id, quantity |-> qty]}

\* POST /packages/<package_id>/items
packages_add_item(package_id, form) ==
    IF package_id \notin DOMAIN package_head
    THEN Abort("packages_add_item", 404, "Package not found")
    ELSE IF Locked(package_id)
    THEN Abort("packages_add_item", 400, "Package cannot be modified (shipment/pack locked)")
    ELSE IF ParsedForms[form].ValueError
    THEN Redirect("packages_add_item", package_id)
    ELSE LET item_id == ParsedForms[form].item_id
             qty == ParsedForms[form].qty
         IN IF InvalidQuantity(qty)
            THEN Redirect("packages_add_item", package_id)
            ELSE IF item_id \notin Items
            THEN Redirect("packages_add_item", package_id)
            ELSE IF ReservationExceeded(item_id, qty)
            THEN Redirect("packages_add_item", package_id)
            ELSE LET pl == UpsertLine(package_id, item_id, qty)
                 IN /\ \A l \in pl : l.quantity <= MaxLineQty /\ l.line_no <= MaxPackageLineNo
                    /\ Commit("packages_add_item", 302, package_id,
                              shipment_head, package_head, shipment_line, pl)
                    /\ UNCHANGED <<stock, history, shipments_left, pending>>

\* (mutation) the lines that follow the deleted one move up by one
DeleteLine_Renumber(line) ==
    { IF \E d \in line : d.package_no = l.package_no /\ d.line_no < l.line_no
      THEN [l EXCEPT !.line_no = l.line_no - 1]
      ELSE l : l \in package_line \ line }

\* db.session.delete(line): the row goes, no other row is touched
DeleteLine(line) == package_line \ line

\* POST /packages/<package_id>/items/<item_id>/delete
packages_delete_item(package_id, item_id) ==
    IF package_id \notin DOMAIN package_head
    THEN Abort("packages_delete_item", 404, "Package not found")
    ELSE IF Locked(package_id)
    THEN Abort("packages_delete_item", 400, "Package cannot be modified (shipment/pack locked)")
    ELSE LET line == {l \in package_line :
                        l.package_no = package_id /\ l.item_no = item_id}
         IN IF line = {}
            THEN Abort("packages_delete_item", 404, "Line not found")
            ELSE /\ Commit("packages_delete_item", 302, package_id,
                           shipment_head, package_head, shipment_line, DeleteLine(line))
                 /\ history' = NoteDeletedLine(package_id, line)
                 /\ UNCHANGED <<stock, shipments_left, pending>>

\* POST /packages/<package_id>/pack
packages_pack(package_id) ==
    IF package_id \notin DOMAIN package_head
    THEN Abort("packages_pack", 404, "Package not found")
    ELSE IF PackRefused(package_id)
    THEN Abort("packages_pack", 400, "Package not open")
    ELSE /\ Commit("packages_pack", 302, package_id,
                   shipment_head, [package_head EXCEPT ![package_id].status = "packed"],
                   shipment_line, package_line)
         /\ UNCHANGED <<stock, history, shipments_left, pending>>

---------------------------------------------------------------------------
(* Requests served side by side: a handler's reads and checks, and its writes
   with db.session.commit(), as two steps; the store takes no lock between
   them (SQLAlchemy's default session, no SELECT ... FOR UPDATE in app.py).
   One request is held in flight, the others are served meanwhile. *)

\* shipments_add_package up to next_line: the shipment is found and open
shipments_add_package_check(shipment_id, user) ==
    /\ pending = Idle
    /\ shipment_id \in DOMAIN shipment_head
    /\ ~ AddPackageRefused(shipment_id)
    /\ NextShipmentLineNo(shipment_id) <= MaxLineNo
    /\ pending' = [Idle EXCEPT !.op = "shipments_add_package",
                               !.shipment_id = shipment_id,
                               !.next_line = NextShipmentLineNo(shipment_id),
                               !.user = user]
    /\ UNCHANGED <<shipment_head, package_head, shipment_line, package_line,
                   stock, response, history, shipments_left>>

\* shipments_add_package from db.session.add(SL(...)) on
shipments_add_package_write ==
    /\ pending.op = "shipments_add_package"
    /\ LET id == NewPackageId
           ph == package_head @@
                   (id :> [status |-> "open", shipment_number |-> None,
                           created_by |-> pending.user])
           sl == shipment_line \cup
                   {[shipment_no |-> pending.shipment_id, line_no |-> pending.next_line,
                     package_no |-> id]}
       IN /\ id <= MaxPackages
          /\ Commit("shipments_add_package", 302, pending.shipment_id,
                    shipment_head, ph, sl, package_line)
    /\ pending' = Idle
    /\ UNCHANGED <<stock, history, shipments_left>>

\* shipments_ship up to the status check: the shipment is found and open
shipments_ship_check(shipment_id) ==
    /\ pending = Idle
    /\ shipment_id \in DOMAIN shipment_head
    /\ ~ ShipRefused(shipment_id)
    /\ pending' = [Idle EXCEPT !.op = "shipments_ship", !.shipment_id = shipment_id]
    /\ UNCHANGED <<shipment_head, package_head, shipment_line, package_line,
                   stock, response, history, shipments_left>>

\* shipments_ship from sn on
shipments_ship_write(t1, t2) ==
    /\ pending.op = "shipments_ship"
    /\ LET shipment_id == pending.shipment_id
           sn == ShipmentNumbers[shipment_id, <<t1, t2>>]
           sh == MarkShipped(shipment_id, sn)
           pkg_ids == {l.package_no : l \in {x \in shipment_line : x.shipment_no = shipment_id}}
           ph == IF pkg_ids # {} THEN UpdatePackages(pkg_ids, sn) ELSE package_head
       IN Commit("shipments_ship", 302, shipment_id,
                 sh, ph, shipment_line, package_line)
    /\ pending' = Idle
    /\ UNCHANGED <<stock, history, shipments_left>>

\* packages_add_item up to the reservation check: every check passes
packages_add_item_check(package_id, form) ==
    /\ pending = Idle
    /\ package_id \in DOMAIN package_head
    /\ ~ Locked(package_id)
    /\ ~ ParsedForms[form].ValueError
    /\ ~ InvalidQuantity(ParsedForms[form].qty)
    /\ ParsedForms[form].item_id \in Items
    /\ ~ ReservationExceeded(ParsedForms[form].item_id, ParsedForms[form].qty)
    /\ pending' = [Idle EXCEPT !.op = "packages_add_item",
                               !.package_id = package_id,
                               !.item_id = ParsedForms[form].item_id,
                               !.qty = ParsedForms[form].qty]
    /\ UNCHANGED <<shipment_head, package_head, shipment_line, package_line,
                   stock, response, history, shipments_left>>

\* (mutation) the reservation is checked again before the write
packages_add_item_write_Rechecks ==
    /\ pending.op = "packages_add_item"
    /\ IF ReservationExceeded(pending.item_id, pending.qty)
       THEN /\ response' = Response("packages_add_item", 302, "", pending.package_id, FALSE)
            /\ UNCHANGED <<shipment_head, package_head, shipment_line, package_line>>
       ELSE LET pl == UpsertLine(pending.package_id, pending.item_id, pending.qty)
            IN /\ \A l \in pl : l.quantity <= MaxLineQty /\ l.line_no <= MaxPackageLineNo
               /\ Commit("packages_add_item", 302, pending.package_id,
                         shipment_head, package_head, shipment_line, pl)
    /\ pending' = Idle
    /\ UNCHANGED <<stock, history, shipments_left>>

\* packages_add_item from the upsert on
packages_add_item_write ==
    /\ pending.op = "packages_add_item"
    /\ LET pl == UpsertLine(pending.package_id, pending.item_id, pending.qty)
       IN /\ \A l \in pl : l.quantity <= MaxLineQty /\ l.line_no <= MaxPackageLineNo
          /\ Commit("packages_add_item", 302, pending.package_id,
                    shipment_head, package_head, shipment_line, pl)
    /\ pending' = Idle
    /\ UNCHANGED <<stock, history, shipments_left>>

\* packages_add_item up to next_line, for a request that finds no line of
\* the pair and will insert one: every check passes, MAX(line_no)+1 is read
packages_add_item_read(package_id, form) ==
    /\ pending = Idle
    /\ package_id \in DOMAIN package_head
    /\ ~ Locked(package_id)
    /\ ~ ParsedForms[form].ValueError
    /\ ~ InvalidQuantity(ParsedForms[form].qty)
    /\ ParsedForms[form].item_id \in Items
    /\ ~ ReservationExceeded(ParsedForms[form].item_id, ParsedForms[form].qty)
    /\ ~ \E l \in package_line :
            l.package_no = package_id /\ l.item_no = ParsedForms[form].item_id
    /\ NextPackageLineNo(package_id) <= MaxPackageLineNo
    /\ pending' = [Idle EXCEPT !.op = "packages_add_item:insert",
                               !.package_id = package_id,
                               !.item_id = ParsedForms[form].item_id,
                               !.qty = ParsedForms[form].qty,
                               !.next_line = NextPackageLineNo(package_id)]
    /\ UNCHANGED <<shipment_head, package_head, shipment_line, package_line,
                   stock, response, history, shipments_left>>

\* packages_add_item from db.session.add(PL(...)) on, with the line number
\* read before
packages_add_item_insert ==
    /\ pending.op = "packages_add_item:insert"
    /\ LET row == [package_no |-> pending.package_id, line_no |-> pending.next_line,
                   item_no |-> pending.item_id, quantity |-> pending.qty]
       IN IF row \in package_line
          \* the INSERT of a row equal to a stored one: its primary key is taken
          THEN /\ UNCHANGED <<shipment_head, package_head, shipment_line, package_line>>
               /\ response' = Response("packages_add_item", 500, "IntegrityError", NoId, FALSE)
          ELSE Commit("packages_add_item", 302, pending.package_id,
                      shipment_head, package_head, shipment_line, package_line \cup {row})
    /\ pending' = Idle
    /\ UNCHANGED <<stock, history, shipments_left>>

\* packages_delete_item up to the lock check: the package is found, unlocked
packages_delete_item_check(package_id, item_id) ==
    /\ pending = Idle
    /\ package_id \in DOMAIN package_head
    /\ ~ Locked(package_id)
    /\ pending' = [Idle EXCEPT !.op = "packages_delete_item",
                               !.package_id = package_id,
                               !.item_id = item_id]
    /\ UNCHANGED <<shipment_head, package_head, shipment_line, package_line,
                   stock, response, history, shipments_left>>

\* packages_delete_item from the line lookup on
packages_delete_item_write ==
    /\ pending.op = "packages_delete_item"
    /\ LET line == {l \in package_line :
                      l.package_no = pending.package_id /\ l.item_no = pending.item_id}
       IN IF line = {}
          THEN /\ response' = Response("packages_delete_item", 404, "Line not found",
                                       NoId, FALSE)
               /\ UNCHANGED <<shipment_head, package_head, shipment_line, package_line,
                              history>>
          ELSE /\ Commit("packages_delete_item", 302, pending.package_id,
                         shipment_head, package_head, shipment_line, DeleteLine(line))
               /\ history' = NoteDeletedLine(pending.package_id, line)
    /\ pending' = Idle
    /\ UNCHANGED <<stock, shipments_left>>

---------------------------------------------------------------------------
(* The specification *)

\* the stock rows: item 1 is stocked, item 2 has no row
StockTables ==
    { (1 :> [quantity_on_hand |-> MaxOnHand]) }

\* db.create_all(), then seed-items and seed-stock: no shipment, no package
Init ==
    /\ shipment_head = <<>>
    /\ package_head = <<>>
    /\ shipment_line = {}
    /\ package_line = {}
    /\ stock \in StockTables
    /\ response = Response("none", 0, "", NoId, FALSE)
    /\ history = NoWatch
    /\ shipments_left = MaxShipments
    /\ pending = Idle

Next ==
    \/ \E u \in Users : shipments_create(u)
    \/ \E s \in ShipmentIds, u \in Users : shipments_add_package(s, u)
    \/ \E s \in ShipmentIds, t \in ClockReadings : shipments_ship(s, t[1], t[2])
    \/ \E s \in ShipmentIds, p \in PackageIds : shipments_delete_package(s, p)
    \/ \E p \in PackageIds, f \in Forms : packages_add_item(p, f)
    \/ \E p \in PackageIds, i \in Items : packages_delete_item(p, i)
    \/ \E p \in PackageIds : packages_pack(p)

Spec == Init /\ [][Next]_vars

\* A database that already holds a package no shipment_line links
\* (PackageHead: "optional 1:1 Link zu Shipment via ShipmentLine"); no route
\* creates one, the tables allow it
SeedPackages ==
    { 1 :> [status |-> "open", shipment_number |-> None, created_by |-> 1] }

InitUnlinked ==
    /\ shipment_head = <<>>
    /\ package_head \in SeedPackages
    /\ shipment_line = {}
    /\ package_line = {}
    /\ stock \in StockTables
    /\ response = Response("none", 0, "", NoId, FALSE)
    /\ history = NoWatch
    /\ shipments_left = MaxShipments
    /\ pending = Idle

SpecUnlinked == InitUnlinked /\ [][Next]_vars

\* The same program with one parent watched: a shipment or a package, whose
\* deleted lines are on record; one unit of item 1 is on hand
Parents == ({"shipment"} \X ShipmentIds) \cup ({"package"} \X PackageIds)

StockTablesHist ==
    { (1 :> [quantity_on_hand |-> 1]) }

InitHist ==
    /\ shipment_head = <<>>
    /\ package_head = <<>>
    /\ shipment_line = {}
    /\ package_line = {}
    /\ stock \in StockTablesHist
    /\ response = Response("none", 0, "", NoId, FALSE)
    /\ history \in { Watch(w[1], w[2]) : w \in Parents }
    /\ shipments_left = MaxShipments
    /\ pending = Idle

SpecHist == InitHist /\ [][Next]_vars

\* The same program with one unit of item 1 and one of item 2 on hand: a
\* package can hold two lines
StockTablesTwo ==
    { (1 :> [quantity_on_hand |-> 1]) @@ (2 :> [quantity_on_hand |-> 1]) }

InitTwo ==
    /\ shipment_head = <<>>
    /\ package_head = <<>>
    /\ shipment_line = {}
    /\ package_line = {}
    /\ stock \in StockTablesTwo
    /\ response = Response("none", 0, "", NoId, FALSE)
    /\ history = NoWatch
    /\ shipments_left = MaxShipments
    /\ pending = Idle

SpecTwo == InitTwo /\ [][Next]_vars

\* The same program creating one shipment more, with nothing in stock (no
\* package gets a line)
StockTablesAmple ==
    { (1 :> [quantity_on_hand |-> MaxLineQty]) }

\* as Init, with enough of item 1 on hand for a line to be incremented
InitAmple ==
    /\ shipment_head = <<>>
    /\ package_head = <<>>
    /\ shipment_line = {}
    /\ package_line = {}
    /\ stock \in StockTablesAmple
    /\ response = Response("none", 0, "", NoId, FALSE)
    /\ history = NoWatch
    /\ shipments_left = MaxShipments
    /\ pending = Idle

SpecAmple == InitAmple /\ [][Next]_vars

\* adding items side by side: one packages_add_item request is in flight
\* between its reservation check and its write while others are served
NextItemRace ==
    \/ \E u \in Users : shipments_create(u)
    \/ \E s \in ShipmentIds, u \in Users : shipments_add_package(s, u)
    \/ \E s \in ShipmentIds, p \in PackageIds : shipments_delete_package(s, p)
    \/ \E p \in PackageIds, f \in Forms : packages_add_item(p, f)
    \/ \E p \in PackageIds, i \in Items : packages_delete_item(p, i)
    \/ \E p \in PackageIds, f \in Forms : packages_add_item_check(p, f)
    \/ packages_add_item_write

SpecItemRace == Init /\ [][NextItemRace]_vars

\* adding, removing packages and shipping side by side: one
\* shipments_add_package or shipments_ship request is in flight between its
\* status check and its writes while others are served
NextShipRace ==
    \/ \E u \in Users : shipments_create(u)
    \/ \E s \in ShipmentIds, u \in Users : shipments_add_package(s, u)
    \/ \E s \in ShipmentIds, t \in ClockReadings : shipments_ship(s, t[1], t[2])
    \/ \E s \in ShipmentIds, p \in PackageIds : shipments_delete_package(s, p)
    \/ \E s \in ShipmentIds, u \in Users : shipments_add_package_check(s, u)
    \/ shipments_add_package_write
    \/ \E s \in ShipmentIds : shipments_ship_check(s)
    \/ \E t \in ClockReadings : shipments_ship_write(t[1], t[2])

SpecShipRace == Init /\ [][NextShipRace]_vars

\* editing a package's lines while the package is packed or its shipment
\* shipped: one packages_add_item or packages_delete_item request is in
\* flight between its lock check and its write while others are served
NextLockRace ==
    \/ \E u \in Users : shipments_create(u)
    \/ \E s \in ShipmentIds, u \in Users : shipments_add_package(s, u)
    \/ \E s \in ShipmentIds, t \in ClockReadings : shipments_ship(s, t[1], t[2])
    \/ \E p \in PackageIds : packages_pack(p)
    \/ \E p \in PackageIds, f \in Forms : packages_add_item(p, f)
    \/ \E p \in PackageIds, f \in Forms : packages_add_item_check(p, f)
    \/ packages_add_item_write
    \/ \E p \in PackageIds, i \in Items : packages_delete_item_check(p, i)
    \/ packages_delete_item_write

SpecLockRace == Init /\ [][NextLockRace]_vars

\* shipping one shipment twice side by side: one shipments_ship request is
\* in flight between its status check and its writes, and reaches its commit
\* at a later clock reading than the requests served meanwhile
NextShipTwice ==
    \/ \E u \in Users : shipments_create(u)
    \/ \E s \in ShipmentIds, u \in Users : shipments_add_package(s, u)
    \/ \E s \in ShipmentIds, p \in PackageIds : shipments_delete_package(s, p)
    \/ \E p \in PackageIds : packages_pack(p)
    \/ \E s \in ShipmentIds, t \in ClockReadings : shipments_ship(s, t[1], t[2])
    \/ \E s \in ShipmentIds : shipments_ship_check(s)
    \/ \E t \in LaterClockReadings : shipments_ship_write(t[1], t[2])

SpecShipTwice == Init /\ [][NextShipTwice]_vars

\* inserting lines into one parent side by side: one shipments_add_package
\* or packages_add_item request is in flight between reading MAX(line_no)+1
\* and its insert while others are served; two items are in stock
NextLineRace ==
    \/ \E u \in Users : shipments_create(u)
    \/ \E s \in ShipmentIds, u \in Users : shipments_add_package(s, u)
    \/ \E p \in PackageIds, f \in Forms : packages_add_item(p, f)
    \/ \E s \in ShipmentIds, u \in Users : shipments_add_package_check(s, u)
    \/ shipments_add_package_write
    \/ \E p \in PackageIds, f \in Forms : packages_add_item_read(p, f)
    \/ packages_add_item_insert

SpecLineRace == InitTwo /\ [][NextLineRace]_vars

StockTablesNone == { <<>> }

InitFleet ==
    /\ shipment_head = <<>>
    /\ package_head = <<>>
    /\ shipment_line = {}
    /\ package_line = {}
    /\ stock \in StockTablesNone
    /\ response = Response("none", 0, "", NoId, FALSE)
    /\ history = NoWatch
    /\ shipments_left = MaxShipments + 1
    /\ pending = Idle

NextFleet ==
    \/ \E u \in Users : shipments_create(u)
    \/ \E s \in FleetShipmentIds, u \in Users : shipments_add_package(s, u)
    \/ \E s \in FleetShipmentIds, t \in ClockReadings : shipments_ship(s, t[1], t[2])
    \/ \E s \in FleetShipmentIds, p \in PackageIds : shipments_delete_package(s, p)
    \/ \E p \in PackageIds, f \in Forms : packages_add_item(p, f)
    \/ \E p \in PackageIds, i \in Items : packages_delete_item(p, i)
    \/ \E p \in PackageIds : packages_pack(p)

SpecFleet == InitFleet /\ [][NextFleet]_vars

---------------------------------------------------------------------------
(* Vocabulary of the properties, stated from the specification's words *)

\* the packages a ShipmentLine links to a shipment whose status is open
PackagesOfOpenShipments ==
    { l.package_no : l \in { x \in shipment_line :
                               /\ x.shipment_no \in DOMAIN shipment_head
                               /\ shipment_head[x.shipment_no].status = "open" } }

\* the packages no ShipmentLine links
UnlinkedPackages ==
    { p \in DOMAIN package_head : \A l \in shipment_line : l.package_no # p }

\* total quantity of item i over the lines of the packages in P
RECURSIVE QuantityIn(_, _)
QuantityIn(i, lines) ==
    IF lines = {} THEN 0
    ELSE LET l == CHOOSE x \in lines : TRUE
         IN (IF l.item_no = i THEN l.quantity ELSE 0) + QuantityIn(i, lines \ {l})

\* reserved_quantity(i): quantity of i over the lines of packages linked to
\* an open shipment
reserved_quantity(i) ==
    QuantityIn(i, { l \in package_line : l.package_no \in PackagesOfOpenShipments })

\* on_hand_quantity(i): the Stock row's quantity, 0 without a row
on_hand_quantity(i) ==
    IF \E r \in DOMAIN stock : r = i THEN stock[i].quantity_on_hand ELSE 0

\* the quantity of the line of item i in package p, 0 without a line
LineQuantity(lines, p, i) ==
    QuantityIn(i, { l \in lines : l.package_no = p })

\* the lines of item i in package p
LinesOf(lines, p, i) == { l \in lines : l.package_no = p /\ l.item_no = i }

\* the lines of every other (package, item) pair
OtherLines(lines, p, i) == { l \in lines : ~ (l.package_no = p /\ l.item_no = i) }

\* a form that passes validation: both fields integers, qty >= 1, the item exists
ValidForm(f) ==
    /\ ~ ParsedForms[f].ValueError
    /\ ParsedForms[f].qty >= 1
    /\ ParsedForms[f].item_id \in Items

\* the package is locked: its status is not open, or it is linked to a
\* shipment that is not open
PackageLocked(p) ==
    \/ package_head[p].status # "open"
    \/ \E l \in shipment_line :
          l.package_no = p /\ shipment_head[l.shipment_no].status # "open"

\* the line numbers present in a parent
ShipmentLineNos(lines, s) == { l.line_no : l \in { x \in lines : x.shipment_no = s } }

PackageLineNos(lines, p) == { l.line_no : l \in { x \in lines : x.package_no = p } }

\* the largest of a set of line numbers, 0 for none
Greatest(S) == IF S = {} THEN 0 ELSE CHOOSE n \in S : \A k \in S : k <= n

\* the lines a step inserts
NewShipmentLines == shipment_line' \ shipment_line

NewPackageLines ==
    { l \in package_line' : l.line_no \notin PackageLineNos(package_line, l.package_no) }

\* the shipments a ShipmentLine links package p to
ShipmentsOf(lines, p) == { l.shipment_no : l \in { x \in lines : x.package_no = p } }

\* the ShipmentLines that reference package p
LinksOf(lines, p) == { l \in lines : l.package_no = p }

\* the step serves a request to route op
Served(op) == response'.op = op

\* the request was refused as an error (abort with a 4xx/5xx status)
ReportedError(r) == r.status >= 400

\* the request returned normally without writing: the redirect to the
\* package's page, nothing committed
SilentNoOp(r, p) == r.status = 302 /\ r.target = p /\ ~ r.committed

\* the add would exceed the stock: reserved_quantity(i) + qty > on_hand_quantity(i)
ReservationFails(f) ==
    reserved_quantity(ParsedForms[f].item_id) + ParsedForms[f].qty
       > on_hand_quantity(ParsedForms[f].item_id)

\* the packages a ShipmentLine links to a shipment whose status is not open
PackagesOfClosedShipments ==
    { l.package_no : l \in { x \in shipment_line :
                               shipment_head[x.shipment_no].status # "open" } }

\* the last request was op and its transaction committed
Did(op) == response.op = op /\ response.committed

---------------------------------------------------------------------------
(* Properties *)

\* C1: after an add_item_to_package call that creates or increments a line
\* of item i, reserved_quantity(i) <= on_hand_quantity(i).
C1_ReservedWithinOnHand ==
    [][\A p \in PackageIds, f \in Forms :
          ( /\ Served("packages_add_item")
            /\ response'.committed
            /\ packages_add_item(p, f) )
             => reserved_quantity(ParsedForms[f].item_id)'
                  <= on_hand_quantity(ParsedForms[f].item_id)']_vars

\* an add to a package of an open shipment has taken the whole stock of item 1
C1_Witness ==
    /\ Did("packages_add_item")
    /\ response.target \in PackagesOfOpenShipments
    /\ LineQuantity(package_line, response.target, 1) >= 1
    /\ reserved_quantity(1) >= 1

\* C2: for every shipped shipment S, every package a ShipmentLine links to
\* S has status shipped and S's shipment_number.
C2_ShippedCascade ==
    \A l \in shipment_line :
        shipment_head[l.shipment_no].status = "shipped"
           => /\ package_head[l.package_no].status = "shipped"
              /\ package_head[l.package_no].shipment_number
                    = shipment_head[l.shipment_no].shipment_number

\* ship has just shipped a shipment that holds a package
C2_Witness ==
    /\ Did("shipments_ship")
    /\ shipment_head[response.target].status = "shipped"
    /\ shipment_head[response.target].shipment_number # None
    /\ \E l \in shipment_line : l.shipment_no = response.target

\* C3: ship on a shipment that is not open fails with status 400 and leaves
\* every shipment and every package (status and shipment_number) as it was.
C3_ShipNotOpenFails ==
    [][\A s \in ShipmentIds, t \in ClockReadings :
          ( /\ Served("shipments_ship")
            /\ s \in DOMAIN shipment_head
            /\ shipment_head[s].status # "open"
            /\ shipments_ship(s, t[1], t[2]) )
             => /\ response'.status = 400
                /\ ~ response'.committed
                /\ UNCHANGED <<shipment_head, package_head, shipment_line, package_line>>]_vars

\* a ship request on a shipped shipment has been refused
C3_Witness ==
    /\ response.op = "shipments_ship"
    /\ response.status = 400
    /\ \E s \in DOMAIN shipment_head : shipment_head[s].status = "shipped"

\* C4: on an unlocked package linked to an open shipment, with an existing
\* item i and qty >= 1, add_item_to_package takes effect iff
\* reserved_quantity(i) + qty <= on_hand_quantity(i); then the line grows by
\* exactly qty, otherwise no line changes.
C4_AddItemIffReservable ==
    [][\A p \in PackageIds, f \in Forms :
          ( /\ Served("packages_add_item")
            /\ p \in DOMAIN package_head
            /\ ~ PackageLocked(p)
            /\ p \in PackagesOfOpenShipments
            /\ ValidForm(f)
            /\ packages_add_item(p, f) )
             => LET i == ParsedForms[f].item_id
                    qty == ParsedForms[f].qty
                IN /\ response'.committed
                        <=> reserved_quantity(i) + qty <= on_hand_quantity(i)
                   /\ response'.committed
                        => /\ LineQuantity(package_line', p, i)
                                 = LineQuantity(package_line, p, i) + qty
                           /\ OtherLines(package_line', p, i) = OtherLines(package_line, p, i)
                   /\ ~ response'.committed => package_line' = package_line]_vars

\* an add that brought the reservation exactly to the stock on hand
C4_Witness ==
    /\ Did("packages_add_item")
    /\ response.target \in PackagesOfOpenShipments
    /\ reserved_quantity(1) = on_hand_quantity(1)
    /\ LineQuantity(package_line, response.target, 1) = on_hand_quantity(1)

C6_NeverReassigned ==
    [][ /\ \A l \in NewShipmentLines :
              /\ l.line_no > Greatest(ShipmentLineNos(shipment_line, l.shipment_no))
              /\ Watched("shipment", l.shipment_no) => l.line_no > history.deleted
        /\ \A l \in NewPackageLines :
              /\ l.line_no > Greatest(PackageLineNos(package_line, l.package_no))
              /\ Watched("package", l.package_no) => l.line_no > history.deleted ]_vars

\* C6 amended: within one parent every newly assigned line_no is the largest
\* line_no present in that parent plus one (1 when it has no line), so it is
\* greater than every number present and never a duplicate; the number of a
\* deleted line is assigned again when no line with that or a higher number
\* is left.
C6_NextAfterPresent ==
    [][ /\ \A l \in NewShipmentLines :
              l.line_no = Greatest(ShipmentLineNos(shipment_line, l.shipment_no)) + 1
        /\ \A l \in NewPackageLines :
              l.line_no = Greatest(PackageLineNos(package_line, l.package_no)) + 1
        /\ \A s \in DOMAIN shipment_head' :
              Cardinality(ShipmentLineNos(shipment_line', s))
                 = Cardinality({ l \in shipment_line' : l.shipment_no = s }) ]_vars

\* a package added to a shipment that holds another got the number of a
\* deleted line
C6_Witness ==
    /\ Did("shipments_add_package")
    /\ Watched("shipment", response.target)
    /\ Cardinality(ShipmentLineNos(shipment_line, response.target)) >= 2
    /\ history.deleted = Greatest(ShipmentLineNos(shipment_line, response.target))

\* C7: a package is locked when its status is not open or its shipment (if
\* any) is not open; add_item_to_package and remove_item_from_package on a
\* locked package leave every PackageLine unchanged, and are not rejected
\* for lock reasons on an open package that is unlinked or linked to an open
\* shipment.
C7_LockRule ==
    [][\A p \in PackageIds :
          ( /\ Served("packages_add_item") \/ Served("packages_delete_item")
            /\ p \in DOMAIN package_head
            /\ \/ \E f \in Forms : packages_add_item(p, f)
               \/ \E i \in Items : packages_delete_item(p, i) )
             => /\ PackageLocked(p) => package_line' = package_line
                /\ ( /\ package_head[p].status = "open"
                     /\ p \in UnlinkedPackages \cup PackagesOfOpenShipments )
                      => response'.status # 400]_vars

\* a request to change the lines of a packed package that holds a line, in
\* an open shipment, has been refused
C7_Witness ==
    /\ response.op \in {"packages_add_item", "packages_delete_item"}
    /\ response.status = 400
    /\ \E p \in PackagesOfOpenShipments :
          /\ package_head[p].status = "packed"
          /\ LineQuantity(package_line, p, 1) >= 1

\* C8 as claimed: add_item_to_package reports no error for a lock failure, a
\* validation failure or a reservation failure: it returns normally as a
\* silent no-op and the store is unchanged.
C8_NeverReportsError ==
    [][\A p \in PackageIds, f \in Forms :
          ( /\ Served("packages_add_item")
            /\ p \in DOMAIN package_head
            /\ PackageLocked(p) \/ ~ ValidForm(f) \/ ReservationFails(f)
            /\ packages_add_item(p, f) )
             => /\ ~ ReportedError(response')
                /\ SilentNoOp(response', p)
                /\ UNCHANGED store]_vars

\* C8 amended: add_item_to_package reports a lock failure as an error (status
\* 400); on a package that is not locked, a validation failure or a
\* reservation failure is a silent no-op; in all three cases the store is
\* unchanged.
C8_SilentUnlessLocked ==
    [][\A p \in PackageIds, f \in Forms :
          ( /\ Served("packages_add_item")
            /\ p \in DOMAIN package_head
            /\ PackageLocked(p) \/ ~ ValidForm(f) \/ ReservationFails(f)
            /\ packages_add_item(p, f) )
             => /\ PackageLocked(p) => response'.status = 400 /\ ~ response'.committed
                /\ ~ PackageLocked(p) => SilentNoOp(response', p)
                /\ UNCHANGED store]_vars

\* an add to an open package of an open shipment came back as a redirect
\* with nothing written, the stock of item 1 being reserved in full
C8_Witness ==
    /\ response.op = "packages_add_item"
    /\ SilentNoOp(response, response.target)
    /\ response.target \in PackagesOfOpenShipments
    /\ package_head[response.target].status = "open"
    /\ reserved_quantity(1) = on_hand_quantity(1)

\* C9: the reserved total add_item_to_package compares with the stock of item
\* i is the sum of quantity over the lines of i in packages linked to an
\* open shipment: lines of unlinked packages and of packages of shipped
\* shipments add nothing, lines of packed packages of open shipments count.
C9_ReservedTotal ==
    \A i \in Items :
        /\ Reserved(i) = reserved_quantity(i)
        /\ Reserved(i)
              + QuantityIn(i, { l \in package_line : l.package_no \in UnlinkedPackages })
              + QuantityIn(i, { l \in package_line : l.package_no \in PackagesOfClosedShipments })
           = QuantityIn(i, package_line)

\* an add of item 1 to the unlinked package, which holds a line of it, was
\* turned down: a packed package of an open shipment holds the whole stock
C9_Witness ==
    /\ response.op = "packages_add_item"
    /\ SilentNoOp(response, response.target)
    /\ response.target \in UnlinkedPackages
    /\ LineQuantity(package_line, response.target, 1) >= 1
    /\ \E p \in PackagesOfOpenShipments :
          /\ package_head[p].status = "packed"
          /\ LineQuantity(package_line, p, 1) = on_hand_quantity(1)
    /\ Reserved(1) = on_hand_quantity(1)

\* C10: add_package_to_shipment on a shipment that is not open fails and
\* creates neither a package nor a ShipmentLine; on an open shipment it
\* creates exactly one package (open, no shipment_number, no lines) and
\* exactly one ShipmentLine linking it to that shipment, and leaves all other
\* shipments, packages and lines unchanged.
C10_AddPackageContract ==
    [][\A s \in ShipmentIds, u \in Users :
          ( /\ Served("shipments_add_package")
            /\ s \in DOMAIN shipment_head
            /\ shipments_add_package(s, u) )
             => IF shipment_head[s].status # "open"
                THEN /\ ReportedError(response')
                     /\ UNCHANGED store
                ELSE /\ \E p \in DOMAIN package_head' \ DOMAIN package_head :
                          /\ DOMAIN package_head' = DOMAIN package_head \cup {p}
                          /\ package_head'[p].status = "open"
                          /\ package_head'[p].shipment_number = None
                          /\ PackageLineNos(package_line', p) = {}
                          /\ \E l \in shipment_line' \ shipment_line :
                                /\ shipment_line' = shipment_line \cup {l}
                                /\ l.shipment_no = s
                                /\ l.package_no = p
                     /\ \A q \in DOMAIN package_head : package_head'[q] = package_head[q]
                     /\ shipment_head' = shipment_head
                     /\ package_line' = package_line]_vars

\* a second package has been added to an open shipment
C10_Witness ==
    /\ Did("shipments_add_package")
    /\ shipment_head[response.target].status = "open"
    /\ Cardinality(ShipmentLineNos(shipment_line, response.target)) >= 2
    /\ \E l \in shipment_line :
          /\ l.shipment_no = response.target
          /\ package_head[l.package_no].status = "open"
          /\ package_head[l.package_no].shipment_number = None
          /\ PackageLineNos(package_line, l.package_no) = {}

C12_RemoveItemContract ==
    [][\A p \in PackageIds, i \in Items :
          ( /\ Served("packages_delete_item")
            /\ p \in DOMAIN package_head
            /\ ~ PackageLocked(p)
            /\ packages_delete_item(p, i) )
             => IF LineQuantity(package_line, p, i) = 0
                THEN /\ response'.status = 404
                     /\ UNCHANGED store
                ELSE /\ response'.committed
                     /\ package_line' \subseteq package_line
                     /\ OtherLines(package_line', p, i) = OtherLines(package_line, p, i)
                     /\ LineQuantity(package_line', p, i) = 0
                     /\ Cardinality(package_line') = Cardinality(package_line) - 1
                     /\ UNCHANGED <<shipment_head, package_head, shipment_line>>]_vars

\* line 1 of a package has been deleted and its line 2 is still line 2
C12_Witness ==
    /\ Did("packages_delete_item")
    /\ PackageLineNos(package_line, response.target) = {2}

\* C13: in every reachable state each package is referenced by at most one
\* ShipmentLine, and a package is never linked to two different shipments
\* over its lifetime: while it exists, a linked package stays linked to the
\* same shipment.
C13_OneShipmentPerPackage ==
    /\ \A p \in PackageIds : Cardinality(LinksOf(shipment_line, p)) <= 1
    /\ [][ /\ \A p \in PackageIds : Cardinality(LinksOf(shipment_line', p)) <= 1
           /\ \A p \in DOMAIN package_head \cap DOMAIN package_head' :
                 ShipmentsOf(shipment_line, p) # {}
                    => ShipmentsOf(shipment_line', p) = ShipmentsOf(shipment_line, p) ]_vars

\* two shipments both hold a package, the second just added
C13_Witness ==
    /\ Did("shipments_add_package")
    /\ \E p, q \in DOMAIN package_head :
          /\ ShipmentsOf(shipment_line, p) = {1}
          /\ ShipmentsOf(shipment_line, q) = {2}

\* clock values and shipment ids whose digits could run into each other
ClockSamples ==
    { Instant(2024, 1, 1, 0, 0, 0), Instant(2024, 1, 1, 1, 0, 0),
      Instant(2024, 11, 1, 11, 10, 0), Instant(2024, 1, 11, 10, 0, 1),
      Instant(2024, 1, 1, 23, 59, 59), Instant(2024, 1, 2, 0, 0, 0) }

IdSamples == {1, 2, 10, 11, 101, 110}

\* the numbers of two different shipment ids differ at all sampled clock values
NumbersDifferById ==
    \A a, b \in IdSamples : \A t1, t2, u1, u2 \in ClockSamples :
        a # b => FormatShipmentNumber(t1, a, t2) # FormatShipmentNumber(u1, b, u2)

\* C14: in every reachable state no two distinct shipments hold the same
\* non-null shipment_number, and the number ship generates never equals one
\* stored on another shipment (for any clock values, the commit of ship never
\* fails on the unique shipment_number).
C14_ShipmentNumbersDistinct ==
    [][ /\ \A a, b \in DOMAIN shipment_head' :
              (a # b /\ shipment_head'[a].shipment_number # None)
                 => shipment_head'[a].shipment_number # shipment_head'[b].shipment_number
        /\ Served("shipments_ship") => (response'.status # 500 /\ NumbersDifferById) ]_vars

\* two shipments are shipped, at the same clock readings, each with a number
C14_Witness ==
    /\ Did("shipments_ship")
    /\ \E a, b \in DOMAIN shipment_head :
          /\ a # b
          /\ shipment_head[a].shipment_number # None
          /\ shipment_head[b].shipment_number # None

\* C15: a package's status changes only open -> packed (by pack_package, which
\* fails with no change unless the status is exactly open) and open|packed ->
\* shipped (only by ship on the package's shipment); it never goes from packed
\* back to open nor out of shipped, and pack_package changes nothing but that
\* one package's status.
C15_PackageStatusMoves ==
    [][ /\ \A p \in DOMAIN package_head \cap DOMAIN package_head' :
              package_head'[p].status # package_head[p].status
                 => \/ /\ Served("packages_pack")
                       /\ response'.target = p
                       /\ package_head[p].status = "open"
                       /\ package_head'[p].status = "packed"
                    \/ /\ Served("shipments_ship")
                       /\ response'.target = LinkedShipment(p)
                       /\ package_head[p].status \in {"open", "packed"}
                       /\ package_head'[p].status = "shipped"
        /\ \A p \in PackageIds :
              ( /\ Served("packages_pack")
                /\ p \in DOMAIN package_head
                /\ packages_pack(p) )
                 => IF package_head[p].status # "open"
                    THEN /\ ReportedError(response')
                         /\ UNCHANGED store
                    ELSE /\ response'.committed
                         /\ package_head' = [package_head EXCEPT ![p].status = "packed"]
                         /\ UNCHANGED <<shipment_head, shipment_line, package_line, stock>> ]_vars

\* a package was packed while the other package of the shipment, with its
\* line, stays open
C15_Witness ==
    /\ Did("packages_pack")
    /\ package_head[response.target].status = "packed"
    /\ \E q \in DOMAIN package_head :
          /\ q # response.target
          /\ package_head[q].status = "open"
          /\ LineQuantity(package_line, q, 1) >= 1

\* C16: a shipment is created open with a null shipment_number; its status is
\* only ever open or shipped, changes at most once (open -> shipped, by ship)
\* and never from shipped back; and in every state its shipment_number is
\* non-null exactly when its status is shipped.
C16_ShipmentLifecycle ==
    [][ /\ \A s \in DOMAIN shipment_head' :
              /\ shipment_head'[s].status \in {"open", "shipped"}
              /\ (shipment_head'[s].shipment_number # None)
                    <=> (shipment_head'[s].status = "shipped")
        /\ \A s \in DOMAIN shipment_head' \ DOMAIN shipment_head :
              /\ Served("shipments_create")
              /\ shipment_head'[s].status = "open"
              /\ shipment_head'[s].shipment_number = None
        /\ \A s \in DOMAIN shipment_head :
              /\ s \in DOMAIN shipment_head'
              /\ shipment_head'[s] # shipment_head[s]
                    => /\ Served("shipments_ship")
                       /\ response'.target = s
                       /\ shipment_head[s].status = "open"
                       /\ shipment_head'[s].status = "shipped" ]_vars

\* one shipment has been shipped and holds its number while another one,
\* created earlier, is still open without a number
C16_Witness ==
    /\ Did("shipments_ship")
    /\ shipment_head[response.target].status = "shipped"
    /\ shipment_head[response.target].shipment_number # None
    /\ \E s \in DOMAIN shipment_head :
          /\ shipment_head[s].status = "open"
          /\ shipment_head[s].shipment_number = None

\* C17: in every reachable state a package has at most one PackageLine per
\* item and every PackageLine has quantity >= 1; add_item_to_package on a
\* (package, item) pair that already has a line raises that line's quantity
\* by qty, keeps its line_no, and inserts no second line for the pair.
C17_OneLinePerItem ==
    [][ /\ \A l \in package_line' \ package_line :
             /\ l.quantity >= 1
             /\ LinesOf(package_line', l.package_no, l.item_no) = {l}
        /\ (Served("packages_add_item") /\ response'.committed) => \A f \in Forms :
             LET p == response'.target
                 i == ParsedForms[f].item_id
                 qty == ParsedForms[f].qty
             IN ( /\ ValidForm(f)
                  /\ LinesOf(package_line, p, i) # {}
                  /\ packages_add_item(p, f) )
                => /\ LinesOf(package_line', p, i)
                        = { [l EXCEPT !.quantity = l.quantity + qty] :
                              l \in LinesOf(package_line, p, i) }
                   /\ OtherLines(package_line', p, i) = OtherLines(package_line, p, i) ]_vars

\* a line holds more than one request can ask for: it was raised by a later
\* add for the same pair, and it is still the package's only line, line 1
C17_Witness ==
    /\ Did("packages_add_item")
    /\ \A q \in QuantityFormValues : IsIntLiteral(q) => ParseInt(q) < MaxLineQty
    /\ \E l \in package_line :
          /\ l.package_no = response.target
          /\ l.quantity = MaxLineQty
          /\ l.line_no = 1
          /\ LinesOf(package_line, l.package_no, l.item_no) = {l}

\* C18: starting from a store in which every package is linked, every
\* existing package is linked to a shipment by a ShipmentLine in every
\* committed state: add_package_to_shipment leaves no package without its
\* link, also when the link insert fails, and remove_package_from_shipment
\* leaves no unlinked package behind.
C18_EveryPackageLinked ==
    \A p \in DOMAIN package_head :
        \E l \in shipment_line : l.package_no = p /\ l.shipment_no \in DOMAIN shipment_head

\* the link insert of an add_package request failed (its line number was
\* taken meanwhile): the request's package is not in the store, the one
\* package there is linked
C18_Witness ==
    /\ response.op = "shipments_add_package"
    /\ response.status = 500
    /\ Cardinality(DOMAIN package_head) = 1
    /\ Cardinality(shipment_line) = 1

\* the step is the write of the packages_add_item request in flight
AddItemWritten ==
    /\ pending.op = "packages_add_item"
    /\ pending' = Idle

\* C19: with the reservation read and the line write of add_item_to_package
\* as separate steps and no lock between them, the write of a request that
\* passed its check goes through whatever has been reserved meanwhile, so
\* two concurrent requests for the same item both commit and reach
\* reserved_quantity(item) > on_hand_quantity(item); the stock is exceeded
\* by no other step.
C19_CheckThenActRace ==
    [][ /\ (AddItemWritten /\ pending.package_id \in DOMAIN package_head)
              => /\ response'.committed
                 /\ LineQuantity(package_line', pending.package_id, pending.item_id)
                      = LineQuantity(package_line, pending.package_id, pending.item_id)
                          + pending.qty
        /\ \A i \in Items :
              ( /\ reserved_quantity(i) <= on_hand_quantity(i)
                /\ reserved_quantity(i)' > on_hand_quantity(i)' )
                 => AddItemWritten ]_vars

\* two requests for item 1 have both committed a line, in two packages of an
\* open shipment, and more is reserved than is on hand
C19_Witness ==
    /\ Did("packages_add_item")
    /\ pending = Idle
    /\ reserved_quantity(1) > on_hand_quantity(1)
    /\ \E p, q \in PackagesOfOpenShipments :
          /\ p # q
          /\ LineQuantity(package_line, p, 1) >= 1
          /\ LineQuantity(package_line, q, 1) >= 1

\* C20 as claimed: also when an add_package_to_shipment request and a ship
\* request on the same shipment interleave, no committed state has a shipped
\* shipment with a linked package that is not shipped or carries another
\* shipment_number.
C20_CascadeUnderInterleaving ==
    \A s \in DOMAIN shipment_head : \A p \in DOMAIN package_head :
        ( /\ shipment_head[s].status = "shipped"
          /\ s \in ShipmentsOf(shipment_line, p) )
           => /\ package_head[p].status = "shipped"
              /\ package_head[p].shipment_number = shipment_head[s].shipment_number

\* C21 as claimed: also when an add_item_to_package or
\* remove_item_from_package request interleaves with ship on the package's
\* shipment or pack_package on the package, no PackageLine of a package is
\* inserted, changed or deleted once the package is packed or shipped.
C21_NoEditAfterLock ==
    [][ \A p \in DOMAIN package_head :
          package_head[p].status \in {"packed", "shipped"}
             => { l \in package_line' : l.package_no = p }
                  = { l \in package_line : l.package_no = p } ]_vars

\* C22 as claimed: a shipment's shipment_number is assigned exactly once;
\* once non-null it has the same value in every later state, also when two
\* ship requests for the shipment interleave between status check and commit
\* at different clock values.
C22_NumberAssignedOnce ==
    [][ \A s \in DOMAIN shipment_head :
          shipment_head[s].shipment_number # None
             => shipment_head'[s].shipment_number = shipment_head[s].shipment_number ]_vars

\* the step is the insert of the request in flight, whose line number is
\* taken by now
LosingShipmentLineInsert ==
    /\ pending.op = "shipments_add_package"
    /\ pending' = Idle
    /\ pending.next_line \in ShipmentLineNos(shipment_line, pending.shipment_id)

LosingPackageLineInsert ==
    /\ pending.op = "packages_add_item:insert"
    /\ pending' = Idle
    /\ pending.next_line \in PackageLineNos(package_line, pending.package_id)

\* C23: when two requests insert a line into the same parent and both
\* computed the same max+1 line_no, at most one commits: no state has two
\* lines of one parent with the same line_no, and the losing request fails as
\* a whole, none of its writes (nor add_package's new package) in the store.
C23_OneInsertPerLineNo ==
    [][ /\ \A l, k \in shipment_line' :
              (l.shipment_no = k.shipment_no /\ l.line_no = k.line_no) => l = k
        /\ \A l, k \in package_line' :
              (l.package_no = k.package_no /\ l.line_no = k.line_no) => l = k
        /\ (LosingShipmentLineInsert \/ LosingPackageLineInsert)
              => /\ response'.status = 500
                 /\ ~ response'.committed
                 /\ UNCHANGED store ]_vars

\* the insert of a package line lost: the request got a 500, the package
\* has the one line that the other request committed under that line number
C23_Witness ==
    /\ response.op = "packages_add_item"
    /\ response.status = 500
    /\ pending = Idle
    /\ \E p \in DOMAIN package_head :
          PackageLineNos(package_line, p) = {1}
             /\ Cardinality({ l \in package_line : l.package_no = p }) = 1

\* the item has no Stock row
Unstocked(i) == i \notin DOMAIN stock

\* C24: an item without a Stock row has 0 on hand, so every
\* add_item_to_package call for it with qty >= 1 is a no-op that creates or
\* changes no line, for any package, linked or not.
C24_UnstockedNeverAdded ==
    [][ Served("packages_add_item") => \A p \in PackageIds, f \in Forms :
          ( /\ ValidForm(f)
            /\ Unstocked(ParsedForms[f].item_id)
            /\ packages_add_item(p, f) )
             => /\ on_hand_quantity(ParsedForms[f].item_id) = 0
                /\ ~ response'.committed
                /\ package_line' = package_line
                /\ (p \in DOMAIN package_head /\ ~ PackageLocked(p))
                      => SilentNoOp(response', p) ]_vars

\* an add to the open package that no shipment links came back without a
\* write while item 2 has no Stock row and item 1 could still be added
C24_Witness ==
    /\ response.op = "packages_add_item"
    /\ response.target \in UnlinkedPackages
    /\ SilentNoOp(response, response.target)
    /\ Unstocked(2)
    /\ package_head[response.target].status = "open"
    /\ package_line = {}

\* the lines of the packages a ShipmentLine links to shipment s
LinesOfShipment(s) ==
    { l \in package_line : s \in ShipmentsOf(shipment_line, l.package_no) }

\* C25: ship(S) leaves every Stock.quantity_on_hand and every PackageLine
\* quantity unchanged while reserved_quantity(i) drops by exactly the total
\* quantity of item i in S's packages, for every item i; no core operation
\* ever writes a Stock row (the Item rows are fixed).
C25_ShipReleasesReservation ==
    [][ /\ stock' = stock
        /\ (Served("shipments_ship") /\ response'.committed)
              => /\ package_line' = package_line
                 /\ \A i \in Items :
                       reserved_quantity(i)'
                          = reserved_quantity(i)
                              - QuantityIn(i, LinesOfShipment(response'.target)) ]_vars

\* a shipment whose packages hold both items has been shipped: nothing is
\* reserved any more, the stock rows are as seeded
C25_Witness ==
    /\ Did("shipments_ship")
    /\ \A i \in Items :
          /\ QuantityIn(i, LinesOfShipment(response.target)) >= 1
          /\ reserved_quantity(i) = 0
          /\ on_hand_quantity(i) >= 1

\* the packages a ShipmentLine links to shipment s
PackagesOfShipment(lines, s) == { l.package_no : l \in { x \in lines : x.shipment_no = s } }

\* C26: once a shipment is shipped it is frozen under atomically executed
\* operations: its status and shipment_number, the set of packages linked to
\* it, their statuses and shipment_numbers, and the items and quantities of
\* all their lines stay, step after step, as they are after ship.
C26_ShippedIsFrozen ==
    [][ \A s \in DOMAIN shipment_head :
          shipment_head[s].status = "shipped"
             => /\ s \in DOMAIN shipment_head'
                /\ shipment_head'[s] = shipment_head[s]
                /\ PackagesOfShipment(shipment_line', s) = PackagesOfShipment(shipment_line, s)
                /\ \A p \in PackagesOfShipment(shipment_line, s) :
                      /\ p \in DOMAIN package_head'
                      /\ package_head'[p] = package_head[p]
                      /\ { l \in package_line' : l.package_no = p }
                           = { l \in package_line : l.package_no = p } ]_vars

\* a request to take a package out of a shipped shipment was refused; the
\* shipment still has its number and its package with its line
C26_Witness ==
    /\ response.op = "shipments_delete_package"
    /\ response.status = 400
    /\ \E s \in DOMAIN shipment_head :
          /\ shipment_head[s].status = "shipped"
          /\ shipment_head[s].shipment_number # None
          /\ \E p \in PackagesOfShipment(shipment_line, s) :
                /\ package_head[p].status = "shipped"
                /\ \E l \in package_line : l.package_no = p

====
